---- MODULE Spec2Model ----
(***************************************************************************)
(* Model of the two NFT transfer scripts of the repository:                *)
(*   - the Snowflake Safe retrieval script (retrieveNFTFromSafe, with      *)
(*     createMetaplexCoreTransferInstruction, verifyNFTInSafe,             *)
(*     createTransferProposal and executeProposal), and                    *)
(*   - the direct transfer script (transferNFT, verifyAssetOwnership).     *)
(* Every RPC / SDK call is an input of the environment: its outcome is     *)
(* drawn from a small set when the call is made.                           *)
(***************************************************************************)
EXTENDS Integers, Sequences, FiniteSets, TLC

\* ---------------------------------------------------------------- bounds
NumUserKeys == 3
MaxRetriesBound == 4
MaxApprovals == 2

\* ------------------------------------------------------------------ keys
\* Public keys are numbers; the well-known keys get fixed numbers.
PublicKeyDefault == 0
SystemProgramId == PublicKeyDefault
SYSVAR_RENT_PUBKEY == 1
SYSVAR_INSTRUCTIONS_PUBKEY == 2
METAPLEX_CORE_PROGRAM_ID == 3
OtherProgramId == 4
UserKeys == 11..(10 + NumUserKeys)

\* ---------------------------------------------------- strings <-> keys
\* A string of the environment or of a toString()/toBase58() call.
\* kind "b58" is the base58 text of key `key`; the other kinds are texts
\* that are no base58 text of a 32-byte key.
Str(kind, key) == [kind |-> kind, key |-> key]
Unset == Str("unset", 0)
Empty == Str("empty", 0)
Garbage == Str("garbage", 0)

\* PublicKey.prototype.toString / toBase58
ToBase58(k) == Str("b58", k)

\* new PublicKey(s) succeeds only on the base58 text of a key
IsPublicKeyText(s) == s.kind = "b58"
NewPublicKey(s) == s.key

\* JavaScript truthiness of an environment string (!s)
Truthy(s) == s.kind \notin {"unset", "empty"}

\* ------------------------------------------------- instruction builder
AccountMeta(k, w, s) == [pubkey |-> k, isWritable |-> w, isSigner |-> s]

transferDiscriminator == <<116, 97, 188, 150, 133, 175, 148, 44>>
someFlag == <<1>>

\* the amount written high byte first
RECURSIVE ToArrayLikeBE(_, _)
ToArrayLikeBE(n, len) ==
    IF len = 0 THEN <<>>
    ELSE ToArrayLikeBE(n \div 256, len - 1) \o <<n % 256>>

\* BN.toArrayLike(Buffer, 'le', len): the low byte first, len bytes
RECURSIVE ToArrayLikeLE(_, _)
ToArrayLikeLE(n, len) ==
    IF len = 0 THEN <<>>
    ELSE <<n % 256>> \o ToArrayLikeLE(n \div 256, len - 1)

amountValue == ToArrayLikeLE(1, 8)
instructionData == transferDiscriminator \o someFlag \o amountValue

\* the account list with a payer that is not writable
ManualAccountsPayerReadonly(safeSignerAddress, assetAddress, destination, collectionAddress) ==
    << AccountMeta(assetAddress, TRUE, FALSE),
       AccountMeta(safeSignerAddress, FALSE, TRUE),
       AccountMeta(PublicKeyDefault, FALSE, FALSE),
       AccountMeta(collectionAddress, FALSE, FALSE),
       AccountMeta(safeSignerAddress, FALSE, FALSE),
       AccountMeta(destination, FALSE, FALSE),
       AccountMeta(safeSignerAddress, FALSE, TRUE),
       AccountMeta(SystemProgramId, FALSE, FALSE),
       AccountMeta(SYSVAR_RENT_PUBKEY, FALSE, FALSE),
       AccountMeta(SYSVAR_INSTRUCTIONS_PUBKEY, FALSE, FALSE) >>

ManualAccounts(safeSignerAddress, assetAddress, destination, collectionAddress) ==
    << AccountMeta(assetAddress, TRUE, FALSE),
       AccountMeta(safeSignerAddress, FALSE, TRUE),
       AccountMeta(PublicKeyDefault, FALSE, FALSE),
       AccountMeta(collectionAddress, FALSE, FALSE),
       AccountMeta(safeSignerAddress, FALSE, FALSE),
       AccountMeta(destination, FALSE, FALSE),
       AccountMeta(safeSignerAddress, TRUE, TRUE),
       AccountMeta(SystemProgramId, FALSE, FALSE),
       AccountMeta(SYSVAR_RENT_PUBKEY, FALSE, FALSE),
       AccountMeta(SYSVAR_INSTRUCTIONS_PUBKEY, FALSE, FALSE) >>

NoIx == [path |-> "none"]

ManualInstruction(safeSignerAddress, assetAddress, destination, collectionAddress) ==
    [path |-> "manual",
     programId |-> METAPLEX_CORE_PROGRAM_ID,
     keys |-> ManualAccounts(safeSignerAddress, assetAddress, destination, collectionAddress),
     data |-> instructionData]

\* What the code hands to the SDK's createTransferV1Instruction; the bytes of
\* the instruction the SDK returns are the library's, not this program's.
SdkInstruction(safeSignerAddress, assetAddress, destination, collectionAddress) ==
    [path |-> "sdk",
     transferParams |->
        [asset |-> assetAddress, owner |-> safeSignerAddress,
         delegate |-> PublicKeyDefault, collection |-> collectionAddress,
         updateAuthority |-> safeSignerAddress, newOwner |-> destination,
         payer |-> safeSignerAddress, systemProgram |-> SystemProgramId,
         sysvarRent |-> SYSVAR_RENT_PUBKEY, log |-> SYSVAR_INSTRUCTIONS_PUBKEY],
     amount |-> 1]

\* the guard without the comparison with the default key
CollectionConfigUnsetOnly(envCollection) == ~Truthy(envCollection)

\* the guard of lines 191-194
CollectionConfigInvalid(envCollection) ==
    \/ ~Truthy(envCollection)
    \/ envCollection = ToBase58(PublicKeyDefault)

\* the guard of line 202 (fromWeb3JsPublicKey and toWeb3JsInstruction are set
\* exactly when the imports of lines 32-59 succeeded)
SdkPathAvailable(umi, lib) ==
    umi /\ lib.createTransferV1Instruction /\ lib.imports

\* createMetaplexCoreTransferInstruction; sdkThrows is whether the SDK call
\* of lines 205-249 raises, which sends the code to the manual path
ConfigurationError == [msg |-> "Missing or invalid NFT collection address configuration.", logs |-> FALSE]

createMetaplexCoreTransferInstruction(umi, lib, sdkThrows, envCollection, safeSignerAddress, assetAddress, destination) ==
    IF CollectionConfigInvalid(envCollection)
    THEN [ok |-> FALSE, ix |-> NoIx, err |-> ConfigurationError]
    ELSE LET collectionAddress == NewPublicKey(envCollection) IN
         IF SdkPathAvailable(umi, lib) /\ ~sdkThrows
         THEN [ok |-> TRUE, err |-> ConfigurationError,
               ix |-> SdkInstruction(safeSignerAddress, assetAddress, destination, collectionAddress)]
         ELSE [ok |-> TRUE, err |-> ConfigurationError,
               ix |-> ManualInstruction(safeSignerAddress, assetAddress, destination, collectionAddress)]

\* ------------------------------------------------------- environment
\* What an RPC read of the asset account can return: the call raises, the
\* account is missing, or the account comes back with its owning program and,
\* in its data, the asset's owner field.
AccountInfos ==
    {[status |-> "error", program |-> PublicKeyDefault, owner |-> PublicKeyDefault],
     [status |-> "null", program |-> PublicKeyDefault, owner |-> PublicKeyDefault]}
    \cup [status : {"ok"}, program : {METAPLEX_CORE_PROGRAM_ID, OtherProgramId}, owner : UserKeys]

\* errors a submission can raise: with and without program log lines
NoError == [msg |-> "", logs |-> FALSE]
SubmitErrors == {[msg |-> "blockhash not found", logs |-> FALSE],
                 [msg |-> "simulation failed", logs |-> TRUE]}
TxIds == {"tx1", "tx2"}

LibStates == {[imports |-> FALSE, createTransferV1Instruction |-> FALSE],
              [imports |-> TRUE, createTransferV1Instruction |-> FALSE],
              [imports |-> TRUE, createTransferV1Instruction |-> TRUE]}

ExistingProposalKey == 31
CreatedProposalKey == 32

\* process.env as the scripts read it
CollectionEnvs == {Unset, Empty, Garbage, ToBase58(PublicKeyDefault)} \cup {ToBase58(k) : k \in UserKeys}
ExistingEnvs == {Unset, Garbage, ToBase58(ExistingProposalKey)}

Ev(op, status, key) == [op |-> op, status |-> status, key |-> key]

\* the call of safe.fetchProposal, with the isApproved flags it gave
EvFetchProposal(status, key, approvals) ==
    [op |-> "fetchProposal", status |-> status, key |-> key, approvals |-> approvals]

\* ------------------------------------------------------------- state
VARIABLES
    script,            \* which entry point runs
    pc,                \* position of the single thread of control
    cfg,               \* environment configuration read at load
    libs,              \* which optional imports are defined
    umiContext,        \* global umiContext is non-null
    ix,                \* instruction returned by the builder
    proposalAddress,   \* text of the proposal address in use
    approvalsRequired, \* safeAccount.approvalsRequired
    approvalCount,     \* approvalCount of retrieveNFTFromSafe
    attempt,           \* loop counter of executeProposal
    maxRetries,        \* argument of executeProposal
    execLog,           \* outcomes of the calls to safe.executeProposal
    waits,             \* arguments of the sleep calls of executeProposal
    execResult,        \* how executeProposal completed
    caught,            \* error caught by the outermost catch
    txSignature,       \* txSignature of transferNFT
    result,            \* value the top-level operation resolved to
    exitCode,          \* process.exit code
    trace              \* external calls made so far, in order

vars == <<script, pc, cfg, libs, umiContext, ix, proposalAddress, approvalsRequired,
          approvalCount, attempt, maxRetries, execLog, waits, execResult, caught,
          txSignature, result, exitCode, trace>>


\* ------------------------------------------------------------ helpers
NoExecResult == [kind |-> "none", txid |-> "", err |-> NoError]
Returned(txid) == [kind |-> "return", txid |-> txid, err |-> NoError]
Thrown(err) == [kind |-> "throw", txid |-> "", err |-> err]

SubmitOutcomes ==
    {[kind |-> "ok", txid |-> t, err |-> NoError] : t \in TxIds}
    \cup {[kind |-> "fail", txid |-> "", err |-> e] : e \in SubmitErrors}

\* the verification without the test of the owning program
verifyNFTInSafeNoProgramCheck(info) == info.status = "ok"

\* verifyNFTInSafe applied to what getAccountInfo gave
verifyNFTInSafe(info) ==
    /\ info.status = "ok"
    /\ info.program = METAPLEX_CORE_PROGRAM_ID

\* the wait with the exponent taken from the attempt number itself
WaitTimeExponentAttempt(k) == <<5000 * (3 ^ k), 2 ^ k>>

\* waitTime of executeProposal, 5000 * 1.5^(attempt-1), kept exact as the
\* fraction <<numerator, denominator>>
WaitTime(k) == <<5000 * (3 ^ (k - 1)), 2 ^ (k - 1)>>

\* the error that the throw of line 414 raises: the one caught in this pass,
\* which is the last outcome logged
ThrownErrorFirst(log) == log[1].err

ThrownError(log) == log[Len(log)].err

\* the loop body giving up one attempt early
ExecStepOffByOne(kind, k, n) ==
    IF kind = "ok" THEN "return"
    ELSE IF k + 1 < n THEN "retry"
    ELSE "throw"

\* the loop body that goes on after a successful call while attempts remain
ExecStepNoReturn(kind, k, n) ==
    IF k < n THEN "retry"
    ELSE IF kind = "ok" THEN "return"
    ELSE "throw"

\* what one pass of the loop body of executeProposal does with the outcome
\* of safe.executeProposal
ExecStep(kind, k, n) ==
    IF kind = "ok" THEN "return"
    ELSE IF k < n THEN "retry"
    ELSE "throw"

\* the count that takes every entry of proposal.approvals as an approval
ApprovalCountAllEntries(fetched, approvals, required) ==
    IF fetched THEN Len(approvals)
    ELSE required

\* approvalCount of retrieveNFTFromSafe; fetched is whether fetchProposal
\* returned, approvals the isApproved flags of proposal.approvals
ApprovalCount(fetched, approvals, required) ==
    IF fetched THEN Cardinality({i \in DOMAIN approvals : approvals[i]})
    ELSE required

ApprovalLists == UNION {[1..n -> BOOLEAN] : n \in 0..MaxApprovals}

Configs(s) ==
    IF s = "safe"
    THEN [asset : UserKeys, owner : UserKeys, destination : UserKeys,
          collection : CollectionEnvs, existing : ExistingEnvs]
    ELSE IF s = "transfer"
    THEN [asset : UserKeys, owner : UserKeys, destination : UserKeys,
          collection : CollectionEnvs, existing : {Unset}]
    ELSE [asset : {11}, owner : {11}, destination : {11},
          collection : {ToBase58(11)}, existing : {Unset}]

\* ---------------------------------------------------------------- Init
Init ==
    /\ script \in {"safe", "transfer", "exec"}
    /\ cfg \in Configs(script)
    /\ libs \in (IF script = "safe" THEN LibStates
                 ELSE {[imports |-> TRUE, createTransferV1Instruction |-> TRUE]})
    /\ pc = IF script = "exec" THEN "executeProposal" ELSE "load"
    /\ maxRetries \in (IF script = "exec" THEN (0 - 1)..MaxRetriesBound ELSE {0})
    /\ umiContext = FALSE
    /\ ix = NoIx
    /\ proposalAddress = (IF script = "exec" THEN ToBase58(ExistingProposalKey) ELSE Unset)
    /\ approvalsRequired = 0
    /\ approvalCount = 0
    /\ attempt = 0
    /\ execLog = <<>>
    /\ waits = <<>>
    /\ execResult = NoExecResult
    /\ caught = NoError
    /\ txSignature = ""
    /\ result = "pending"
    /\ exitCode = "none"
    /\ trace = <<>>

\* ------------------------------------------------ Safe retrieval script
\* module load of the Safe script, lines 28-105: the optional imports, the
\* first Umi context and the four `new PublicKey(process.env...)` of 79-82
LoadSafeScript ==
    /\ script = "safe" /\ pc = "load"
    /\ \E umiOk \in BOOLEAN :
          umiContext' = (libs.imports /\ umiOk)
    /\ pc' = IF IsPublicKeyText(cfg.collection) THEN "setupConnection" ELSE "crashed"
    /\ UNCHANGED <<script, cfg, libs, ix, proposalAddress, approvalsRequired, approvalCount,
                   attempt, maxRetries, execLog, waits, execResult, caught, txSignature,
                   result, exitCode, trace>>

\* the outermost catch of retrieveNFTFromSafe, lines 607-617
CatchInRetrieve(err) ==
    /\ caught' = err
    /\ result' = "undefined"
    /\ pc' = "done"

\* setupConnection, lines 112-157
SetupConnection ==
    /\ script = "safe" /\ pc = "setupConnection"
    /\ \E rpcOk \in BOOLEAN, walletOk \in BOOLEAN :
          /\ trace' = Append(trace, Ev("getBlockHeight", IF rpcOk THEN "ok" ELSE "error", 0))
          /\ IF rpcOk /\ walletOk
             THEN /\ pc' = "initializeUmi"
                  /\ UNCHANGED <<caught, result>>
             ELSE CatchInRetrieve([msg |-> IF rpcOk THEN "Failed to load wallet"
                                           ELSE "Failed to connect to Helius RPC",
                                   logs |-> FALSE])
    /\ UNCHANGED <<script, cfg, libs, umiContext, ix, proposalAddress, approvalsRequired,
                   approvalCount, attempt, maxRetries, execLog, waits, execResult,
                   txSignature, exitCode>>

\* initializeUmi whose null result lets the run go on to the manual path
InitializeUmiManualFallback ==
    /\ script = "safe" /\ pc = "initializeUmi"
    /\ \E throws \in BOOLEAN :
          umiContext' = (libs.imports /\ ~throws)
    /\ pc' = "verifyNFT"
    /\ UNCHANGED <<script, cfg, libs, ix, proposalAddress, approvalsRequired, approvalCount,
                   attempt, maxRetries, execLog, waits, execResult, caught, txSignature,
                   result, exitCode, trace>>

\* initializeUmi and the null check of lines 488-496 (then initializeSafe)
InitializeUmi ==
    /\ script = "safe" /\ pc = "initializeUmi"
    /\ \E throws \in BOOLEAN :
          /\ umiContext' = (libs.imports /\ ~throws)
          /\ IF umiContext'
             THEN pc' = "verifyNFT" /\ result' = result
             ELSE pc' = "done" /\ result' = "undefined"
    /\ UNCHANGED <<script, cfg, libs, ix, proposalAddress, approvalsRequired, approvalCount,
                   attempt, maxRetries, execLog, waits, execResult, caught, txSignature,
                   exitCode, trace>>

\* EXISTING_PROPOSAL taken whenever it is set
UseExistingProposalUnchecked(existing) == Truthy(existing)

\* lines 511-518: EXISTING_PROPOSAL is used when it is set and
\* new PublicKey accepts it
UseExistingProposal(existing) ==
    /\ Truthy(existing)
    /\ IsPublicKeyText(existing)

\* lines 500-522 up to the next await: verifyNFTInSafe, the abort, and the
\* choice between EXISTING_PROPOSAL and a new proposal
VerifyNFT ==
    /\ script = "safe" /\ pc = "verifyNFT"
    /\ \E info \in AccountInfos :
          /\ trace' = Append(trace, Ev("verifyNFTInSafe", info.status, info.program))
          /\ IF ~verifyNFTInSafe(info)
             THEN /\ pc' = "done" /\ result' = "undefined"
                  /\ UNCHANGED proposalAddress
             ELSE IF UseExistingProposal(cfg.existing)
             THEN /\ proposalAddress' = ToBase58(NewPublicKey(cfg.existing))
                  /\ pc' = "fetchSafe" /\ result' = result
             ELSE /\ pc' = "createTransferProposal" /\ result' = result
                  /\ UNCHANGED proposalAddress
    /\ UNCHANGED <<script, cfg, libs, umiContext, ix, approvalsRequired, approvalCount,
                   attempt, maxRetries, execLog, waits, execResult, caught, txSignature,
                   exitCode>>

\* createTransferProposal, lines 340-352: the signer PDA and the builder
BuildInstruction ==
    /\ script = "safe" /\ pc = "createTransferProposal"
    /\ \E sdkThrows \in BOOLEAN :
          LET r == createMetaplexCoreTransferInstruction(umiContext, libs, sdkThrows,
                       cfg.collection, cfg.owner, cfg.asset, cfg.destination) IN
          /\ trace' = Append(trace, Ev("createMetaplexCoreTransferInstruction",
                                       IF r.ok THEN "ok" ELSE "error", 0))
          /\ ix' = r.ix
          /\ IF r.ok
             THEN pc' = "createProposal" /\ UNCHANGED <<caught, result>>
             ELSE CatchInRetrieve(r.err)
    /\ UNCHANGED <<script, cfg, libs, umiContext, proposalAddress, approvalsRequired,
                   approvalCount, attempt, maxRetries, execLog, waits, execResult,
                   txSignature, exitCode>>

\* createTransferProposal, lines 354-380: safe.createProposal
CreateProposal ==
    /\ script = "safe" /\ pc = "createProposal"
    /\ \E ok \in BOOLEAN :
          /\ trace' = Append(trace, Ev("createProposal", IF ok THEN "ok" ELSE "error", 0))
          /\ IF ok
             THEN /\ proposalAddress' = ToBase58(CreatedProposalKey)
                  /\ pc' = "fetchSafe"
                  /\ UNCHANGED <<caught, result>>
             ELSE /\ CatchInRetrieve([msg |-> "createProposal failed", logs |-> TRUE])
                  /\ UNCHANGED proposalAddress
    /\ UNCHANGED <<script, cfg, libs, umiContext, ix, approvalsRequired, approvalCount,
                   attempt, maxRetries, execLog, waits, execResult, txSignature, exitCode>>

\* lines 524-533: the propagation sleep and safe.fetchSafe
FetchSafe ==
    /\ script = "safe" /\ pc = "fetchSafe"
    /\ \E ok \in BOOLEAN, required \in 1..MaxApprovals :
          /\ trace' = Append(Append(trace, Ev("sleep", "ok", 5000)),
                             Ev("fetchSafe", IF ok THEN "ok" ELSE "error", 0))
          /\ IF ok
             THEN /\ approvalsRequired' = required
                  /\ pc' = "fetchProposal"
                  /\ UNCHANGED <<caught, result>>
             ELSE /\ CatchInRetrieve([msg |-> "fetchSafe failed", logs |-> FALSE])
                  /\ UNCHANGED approvalsRequired
    /\ UNCHANGED <<script, cfg, libs, umiContext, ix, proposalAddress, approvalCount,
                   attempt, maxRetries, execLog, waits, execResult, txSignature, exitCode>>

\* the entry of a loop whose body runs before its condition is tested
EnterExecuteProposalBodyFirst(n, returnPc) ==
    /\ maxRetries' = n
    /\ attempt' = 1
    /\ pc' = "execAttempt"
    /\ execResult' = execResult

\* entry of executeProposal(safe, proposalAddress, n): the first test of the
\* loop condition attempt <= maxRetries
EnterExecuteProposal(n, returnPc) ==
    /\ maxRetries' = n
    /\ attempt' = 1
    /\ IF 1 <= n
       THEN pc' = "execAttempt" /\ execResult' = execResult
       ELSE pc' = returnPc /\ execResult' = Returned("")

\* lines 535-562 and 595-604: safe.fetchProposal, approvalCount and the
\* threshold test
FetchProposal ==
    /\ script = "safe" /\ pc = "fetchProposal"
    /\ \E fetched \in BOOLEAN, approvals \in ApprovalLists :
          /\ (~fetched => approvals = <<>>)
          /\ trace' = Append(trace, EvFetchProposal(IF fetched THEN "ok" ELSE "error",
                                                    NewPublicKey(proposalAddress), approvals))
          /\ approvalCount' = ApprovalCount(fetched, approvals, approvalsRequired)
          /\ IF approvalCount' >= approvalsRequired
             THEN /\ EnterExecuteProposal(3, "postRead")
                  /\ result' = result
             ELSE /\ pc' = "done" /\ result' = "undefined"
                  /\ UNCHANGED <<maxRetries, attempt, execResult>>
    /\ UNCHANGED <<script, cfg, libs, umiContext, ix, proposalAddress, approvalsRequired,
                   execLog, waits, caught, txSignature, exitCode>>


\* where control goes when executeProposal returns to its caller
ReturnPc == IF script = "safe" THEN "postRead" ELSE "done"

\* a direct call executeProposal(safe, proposalAddress, maxRetries)
ExecuteProposalCall ==
    /\ script = "exec" /\ pc = "executeProposal"
    /\ EnterExecuteProposal(maxRetries, ReturnPc)
    /\ UNCHANGED <<script, cfg, libs, umiContext, ix, proposalAddress, approvalsRequired,
                   approvalCount, execLog, waits, caught, txSignature, result, exitCode,
                   trace>>

\* one pass of the loop body of executeProposal, lines 388-415: the call of
\* safe.executeProposal, then return, start of the backoff sleep, or throw
ExecAttempt ==
    /\ pc = "execAttempt"
    /\ \E out \in SubmitOutcomes :
          LET step == ExecStep(out.kind, attempt, maxRetries) IN
          /\ execLog' = Append(execLog, out)
          /\ IF step = "return"
             THEN /\ execResult' = Returned(out.txid)
                  /\ pc' = ReturnPc
                  /\ trace' = Append(trace, Ev("executeProposal", out.kind, attempt))
                  /\ UNCHANGED <<waits, caught, result>>
             ELSE IF step = "retry"
             THEN /\ waits' = Append(waits, WaitTime(attempt))
                  /\ pc' = "execBackoff"
                  /\ trace' = Append(Append(trace, Ev("executeProposal", out.kind, attempt)),
                                     Ev("sleep", "ok", attempt))
                  /\ UNCHANGED <<execResult, caught, result>>
             ELSE /\ execResult' = Thrown(ThrownError(execLog'))
                  /\ trace' = Append(trace, Ev("executeProposal", out.kind, attempt))
                  /\ UNCHANGED waits
                  /\ IF script = "safe"
                     THEN CatchInRetrieve(ThrownError(execLog'))
                     ELSE pc' = "done" /\ UNCHANGED <<caught, result>>
    /\ UNCHANGED <<script, cfg, libs, umiContext, ix, proposalAddress, approvalsRequired,
                   approvalCount, attempt, maxRetries, txSignature, exitCode>>

\* the backoff sleep ends; attempt++ and the loop condition of line 387
ExecBackoff ==
    /\ pc = "execBackoff"
    /\ attempt' = attempt + 1
    /\ IF attempt' <= maxRetries
       THEN pc' = "execAttempt" /\ execResult' = execResult
       ELSE pc' = ReturnPc /\ execResult' = Returned("")
    /\ UNCHANGED <<script, cfg, libs, umiContext, ix, proposalAddress, approvalsRequired,
                   approvalCount, maxRetries, execLog, waits, caught, txSignature, result,
                   exitCode, trace>>

\* lines 564-606: the settle sleep and the read of the asset account after
\* executeProposal returned; every outcome only logs
PostTransferRead ==
    /\ script = "safe" /\ pc = "postRead"
    /\ \E info \in AccountInfos :
          trace' = Append(Append(trace, Ev("sleep", "ok", 5000)),
                          Ev("postTransferRead", info.status, info.owner))
    /\ result' = "undefined"
    /\ pc' = "done"
    /\ UNCHANGED <<script, cfg, libs, umiContext, ix, proposalAddress, approvalsRequired,
                   approvalCount, attempt, maxRetries, execLog, waits, execResult, caught,
                   txSignature, exitCode>>

\* ------------------------------------------------ direct transfer script
\* what fetchAsset can give: it raises, it gives nothing, or it gives the
\* asset with its owner
AssetReads ==
    {[status |-> "error", owner |-> PublicKeyDefault],
     [status |-> "null", owner |-> PublicKeyDefault]}
    \cup [status : {"ok"}, owner : UserKeys]

LowBalanceLimit == 10000000
Balances == {0, LowBalanceLimit - 1, LowBalanceLimit, LowBalanceLimit + 1}

\* the balance guard that also rejects a balance equal to the limit
LowBalanceInclusive(balance) == balance <= LowBalanceLimit

\* line 97: balance < 0.01 * 10 ** 9
LowBalance(balance) == balance < LowBalanceLimit

VerificationError == [msg |-> "You are not the owner of this asset", logs |-> FALSE]

\* the ownership check that accepts any owner of a found asset
verifyAssetOwnershipAnyOwner(read, expectedOwner) == read.status = "ok"

\* the ownership check whose catch reports success
verifyAssetOwnershipErrorTrue(read, expectedOwner) ==
    \/ read.status = "error"
    \/ /\ read.status = "ok"
       /\ ToBase58(read.owner) = ToBase58(expectedOwner)

\* verifyAssetOwnership applied to what its fetchAsset gave
verifyAssetOwnership(read, expectedOwner) ==
    /\ read.status = "ok"
    /\ ToBase58(read.owner) = ToBase58(expectedOwner)

\* truthiness of the value transferNFT resolved to (line 256)
ResultTruthy(r) == r \in {"true", "noTransferNeeded"}

\* module load of the transfer script, lines 48-57
LoadTransferScript ==
    /\ script = "transfer" /\ pc = "load"
    /\ pc' = IF Truthy(cfg.collection) /\ ~IsPublicKeyText(cfg.collection)
             THEN "crashed" ELSE "getBalance"
    /\ UNCHANGED <<script, cfg, libs, umiContext, ix, proposalAddress, approvalsRequired,
                   approvalCount, attempt, maxRetries, execLog, waits, execResult, caught,
                   txSignature, result, exitCode, trace>>

\* lines 94-104: the balance read, the balance guard and createUmi
GetBalance ==
    /\ script = "transfer" /\ pc = "getBalance"
    /\ \E ok \in BOOLEAN, balance \in Balances, umiOk \in BOOLEAN :
          /\ (~ok => balance = 0)
          /\ trace' = Append(trace, Ev("getBalance", IF ok THEN "ok" ELSE "error", balance))
          /\ IF ~ok
             THEN pc' = "recover" /\ caught' = [msg |-> "getBalance failed", logs |-> FALSE]
             ELSE IF LowBalance(balance)
             THEN pc' = "recover" /\ caught' = [msg |-> "Low wallet balance", logs |-> FALSE]
             ELSE IF ~umiOk
             THEN pc' = "recover" /\ caught' = [msg |-> "createUmi failed", logs |-> FALSE]
             ELSE pc' = "fetchAsset" /\ caught' = caught
    /\ UNCHANGED <<script, cfg, libs, umiContext, ix, proposalAddress, approvalsRequired,
                   approvalCount, attempt, maxRetries, execLog, waits, execResult,
                   txSignature, result, exitCode>>

\* the owner tests without the short-circuit on the destination
OwnerCheckNoShortCircuit(assetOwner, walletKey, destination) ==
    IF ToBase58(assetOwner) # ToBase58(walletKey) THEN "notOwner"
    ELSE "proceed"

\* the owner tests without the test that the wallet is the owner
OwnerCheckNoOwnerTest(assetOwner, walletKey, destination) ==
    IF ToBase58(assetOwner) = ToBase58(destination) THEN "alreadyOwned"
    ELSE "proceed"

\* the two owner tests of lines 117-131 on the owner that fetchAsset gave
OwnerCheck(assetOwner, walletKey, destination) ==
    IF ToBase58(assetOwner) = ToBase58(destination) THEN "alreadyOwned"
    ELSE IF ToBase58(assetOwner) # ToBase58(walletKey) THEN "notOwner"
    ELSE "proceed"

\* lines 106-163: the first fetchAsset, the short-circuit and the owner check
FetchAsset ==
    /\ script = "transfer" /\ pc = "fetchAsset"
    /\ \E a \in AssetReads :
          /\ trace' = Append(trace, Ev("fetchAsset", a.status, a.owner))
          /\ IF a.status # "ok"
             THEN /\ pc' = "recover"
                  /\ caught' = [msg |-> "Asset not found on chain", logs |-> FALSE]
                  /\ result' = result
             ELSE IF OwnerCheck(a.owner, cfg.owner, cfg.destination) = "alreadyOwned"
             THEN /\ pc' = "resolved"
                  /\ result' = "noTransferNeeded"
                  /\ caught' = caught
             ELSE IF OwnerCheck(a.owner, cfg.owner, cfg.destination) = "notOwner"
             THEN /\ pc' = "recover"
                  /\ caught' = VerificationError
                  /\ result' = result
             ELSE /\ pc' = "send"
                  /\ UNCHANGED <<caught, result>>
    /\ UNCHANGED <<script, cfg, libs, umiContext, ix, proposalAddress, approvalsRequired,
                   approvalCount, attempt, maxRetries, execLog, waits, execResult,
                   txSignature, exitCode>>

\* the send that is repeated after a client-side error
SendTransferAgainOnError ==
    /\ script = "transfer" /\ pc = "send"
    /\ \E out \in SubmitOutcomes :
          /\ trace' = Append(trace, Ev("transferV1", out.kind, 0))
          /\ txSignature' = out.txid
          /\ pc' = IF out.kind = "ok" \/ Len(trace) > 6 THEN "verify" ELSE "send"
    /\ UNCHANGED <<script, cfg, libs, umiContext, ix, proposalAddress, approvalsRequired,
                   approvalCount, attempt, maxRetries, execLog, waits, execResult, caught,
                   result, exitCode>>

\* lines 165-183: transferV1(...).sendAndConfirm inside its own try/catch
SendTransfer ==
    /\ script = "transfer" /\ pc = "send"
    /\ \E out \in SubmitOutcomes :
          /\ trace' = Append(trace, Ev("transferV1", out.kind, 0))
          /\ txSignature' = out.txid
    /\ pc' = "verify"
    /\ UNCHANGED <<script, cfg, libs, umiContext, ix, proposalAddress, approvalsRequired,
                   approvalCount, attempt, maxRetries, execLog, waits, execResult, caught,
                   result, exitCode>>

\* lines 185-199: the confirmation sleep and verifyAssetOwnership
VerifyTransfer ==
    /\ script = "transfer" /\ pc = "verify"
    /\ \E a \in AssetReads :
          /\ trace' = Append(Append(trace, Ev("sleep", "ok", 5000)),
                             Ev("verifyAssetOwnership", a.status, a.owner))
          /\ IF verifyAssetOwnership(a, cfg.destination)
             THEN pc' = "resolved" /\ result' = "true"
             ELSE pc' = "secondCheck" /\ result' = result
    /\ UNCHANGED <<script, cfg, libs, umiContext, ix, proposalAddress, approvalsRequired,
                   approvalCount, attempt, maxRetries, execLog, waits, execResult, caught,
                   txSignature, exitCode>>

\* lines 200-215: the second fetchAsset
SecondCheck ==
    /\ script = "transfer" /\ pc = "secondCheck"
    /\ \E a \in AssetReads :
          /\ trace' = Append(trace, Ev("secondFetchAsset", a.status, a.owner))
          /\ IF a.status = "error"
             THEN /\ pc' = "recover"
                  /\ caught' = [msg |-> "fetchAsset failed", logs |-> FALSE]
                  /\ result' = result
             ELSE /\ pc' = "resolved"
                  /\ caught' = caught
                  /\ result' = IF a.status = "ok" /\ ToBase58(a.owner) = ToBase58(cfg.destination)
                               THEN "true" ELSE "false"
    /\ UNCHANGED <<script, cfg, libs, umiContext, ix, proposalAddress, approvalsRequired,
                   approvalCount, attempt, maxRetries, execLog, waits, execResult,
                   txSignature, exitCode>>

\* the catch block without its inner try: a throw of the recovery step
\* rejects transferNFT and the .catch handler exits with code 1
RecoverNoInnerTry ==
    /\ script = "transfer" /\ pc = "recover"
    /\ \E umiOk \in BOOLEAN, a \in AssetReads :
          IF ~umiOk
          THEN /\ a = [status |-> "error", owner |-> PublicKeyDefault]
               /\ trace' = trace
               /\ result' = result
               /\ exitCode' = "1"
               /\ pc' = "done"
          ELSE /\ trace' = Append(Append(trace, Ev("sleep", "ok", 5000)),
                                  Ev("verifyAssetOwnership", a.status, a.owner))
               /\ result' = IF verifyAssetOwnership(a, cfg.destination) THEN "true" ELSE "false"
               /\ exitCode' = exitCode
               /\ pc' = "resolved"
    /\ UNCHANGED <<script, cfg, libs, umiContext, ix, proposalAddress, approvalsRequired,
                   approvalCount, attempt, maxRetries, execLog, waits, execResult, caught,
                   txSignature>>

\* the catch block of transferNFT, lines 216-249
Recover ==
    /\ script = "transfer" /\ pc = "recover"
    /\ \E umiOk \in BOOLEAN, a \in AssetReads :
          IF ~umiOk
          THEN /\ a = [status |-> "error", owner |-> PublicKeyDefault]
               /\ trace' = trace
               /\ result' = "false"
          ELSE /\ trace' = Append(Append(trace, Ev("sleep", "ok", 5000)),
                                  Ev("verifyAssetOwnership", a.status, a.owner))
               /\ result' = IF verifyAssetOwnership(a, cfg.destination) THEN "true" ELSE "false"
    /\ pc' = "resolved"
    /\ UNCHANGED <<script, cfg, libs, umiContext, ix, proposalAddress, approvalsRequired,
                   approvalCount, attempt, maxRetries, execLog, waits, execResult, caught,
                   txSignature, exitCode>>

\* the .then handler of lines 253-257
Exit ==
    /\ script = "transfer" /\ pc = "resolved"
    /\ exitCode' = IF ResultTruthy(result) THEN "0" ELSE "1"
    /\ pc' = "done"
    /\ UNCHANGED <<script, cfg, libs, umiContext, ix, proposalAddress, approvalsRequired,
                   approvalCount, attempt, maxRetries, execLog, waits, execResult, caught,
                   txSignature, result, trace>>

\* ------------------------------------------------------- specification
Next ==
    \/ LoadSafeScript
    \/ SetupConnection
    \/ InitializeUmi
    \/ VerifyNFT
    \/ BuildInstruction
    \/ CreateProposal
    \/ FetchSafe
    \/ FetchProposal
    \/ ExecuteProposalCall
    \/ ExecAttempt
    \/ ExecBackoff
    \/ PostTransferRead
    \/ LoadTransferScript
    \/ GetBalance
    \/ FetchAsset
    \/ SendTransfer
    \/ VerifyTransfer
    \/ SecondCheck
    \/ Recover
    \/ Exit

Spec == Init /\ [][Next]_vars


\* ============================================================== claims
OpsAt(ops) == {i \in DOMAIN trace : trace[i].op \in ops}
HasOp(op) == OpsAt({op}) # {}

\* a/b < c/d for the fractions <<a, b>> and <<c, d>> with b, d > 0
FracLess(x, y) == x[1] * y[2] < y[1] * x[2]

ExecFinished == execResult.kind \in {"return", "throw"}

\* C1: the instruction of the manual path has exactly the ten accounts
\* asset (writable), owner (signer), default key, collection, owner,
\* destination, owner as payer (signer, writable), system program, rent
\* sysvar, instructions sysvar, in this order, and the Metaplex Core
\* program id.
C1_ManualAccountLayout ==
    ix.path = "manual" =>
        /\ Len(ix.keys) = 10
        /\ ix.keys[1] = [pubkey |-> cfg.asset, isWritable |-> TRUE, isSigner |-> FALSE]
        /\ ix.keys[2] = [pubkey |-> cfg.owner, isWritable |-> FALSE, isSigner |-> TRUE]
        /\ ix.keys[3] = [pubkey |-> PublicKeyDefault, isWritable |-> FALSE, isSigner |-> FALSE]
        /\ ix.keys[4] = [pubkey |-> cfg.collection.key, isWritable |-> FALSE, isSigner |-> FALSE]
        /\ ix.keys[5] = [pubkey |-> cfg.owner, isWritable |-> FALSE, isSigner |-> FALSE]
        /\ ix.keys[6] = [pubkey |-> cfg.destination, isWritable |-> FALSE, isSigner |-> FALSE]
        /\ ix.keys[7] = [pubkey |-> cfg.owner, isWritable |-> TRUE, isSigner |-> TRUE]
        /\ ix.keys[8] = [pubkey |-> SystemProgramId, isWritable |-> FALSE, isSigner |-> FALSE]
        /\ ix.keys[9] = [pubkey |-> SYSVAR_RENT_PUBKEY, isWritable |-> FALSE, isSigner |-> FALSE]
        /\ ix.keys[10] = [pubkey |-> SYSVAR_INSTRUCTIONS_PUBKEY, isWritable |-> FALSE, isSigner |-> FALSE]
        /\ ix.programId = METAPLEX_CORE_PROGRAM_ID
        /\ cfg.collection.kind = "b58"
        /\ cfg.collection.key # PublicKeyDefault

C1_Witness ==
    /\ ix.path = "manual"
    /\ cfg.asset # cfg.owner
    /\ cfg.owner # cfg.destination
    /\ cfg.asset # cfg.destination

C3_InvalidCollectionFailsFast ==
    cfg.collection \in {Unset, Empty, ToBase58(PublicKeyDefault)} =>
        /\ ix = NoIx
        /\ ~HasOp("createProposal")
        /\ \A i \in OpsAt({"createMetaplexCoreTransferInstruction"}) :
              /\ trace[i].status = "error"
              /\ i = Len(trace)
              /\ caught = ConfigurationError
              /\ pc = "done"

C3_Witness ==
    /\ cfg.collection = ToBase58(PublicKeyDefault)
    /\ HasOp("createMetaplexCoreTransferInstruction")
    /\ libs.createTransferV1Instruction

\* C4: when every call of safe.executeProposal fails and maxRetries = N >= 1,
\* executeProposal makes exactly N calls, sleeps between successive calls
\* with strictly growing waits, and ends by raising.
C4_AlwaysFailingExhausts ==
    (/\ maxRetries >= 1
     /\ ExecFinished
     /\ \A i \in DOMAIN execLog : execLog[i].kind = "fail")
    => /\ Len(execLog) = maxRetries
       /\ execResult.kind = "throw"
       /\ Len(waits) = maxRetries - 1
       /\ \A i \in 1..(Len(waits) - 1) : FracLess(waits[i], waits[i + 1])

C4_Witness ==
    /\ script = "exec"
    /\ maxRetries >= 3
    /\ execResult.kind = "throw"
    /\ Len(execLog) = maxRetries
    /\ Len(waits) >= 2


SubmissionOps == {"transferV1", "executeProposal"}
\* reads of the asset made after a submission
PostReadOps == {"verifyAssetOwnership", "secondFetchAsset", "postTransferRead"}
OwnerReadOps == PostReadOps \cup {"fetchAsset"}

ReadsDestination(i) == trace[i].status = "ok" /\ trace[i].key = cfg.destination

\* C5: once a submission was attempted, a later read of the asset that shows
\* owner = destination makes the finished operation report success, in
\* transferNFT and in retrieveNFTFromSafe alike.
C5_OwnerReadMeansSuccess ==
    (/\ pc = "done"
     /\ \E i \in OpsAt(SubmissionOps) : \E j \in OpsAt(PostReadOps) :
            i < j /\ ReadsDestination(j))
    => ResultTruthy(result)

\* C6: transferNFT resolves to a truthy value, and the process exits with
\* code 0, only in runs in which some read of the asset's owner equalled the
\* destination.
C6_TruthyOnlyAfterOwnerRead ==
    script = "transfer" =>
        /\ (ResultTruthy(result) => \E i \in OpsAt(OwnerReadOps) : ReadsDestination(i))
        /\ (exitCode = "0" => ResultTruthy(result))
        /\ (result = "true" => \E i \in OpsAt(PostReadOps) : ReadsDestination(i))

C6_Witness ==
    /\ script = "transfer"
    /\ exitCode = "0"
    /\ result = "true"
    /\ txSignature # ""

\* C7: when the first fetch shows the asset owned by the destination, no
\* submission is made and the result is "no transfer needed".
C7_AlreadyOwnedShortCircuits ==
    \A i \in OpsAt({"fetchAsset"}) :
        ReadsDestination(i) =>
            /\ ~HasOp("transferV1")
            /\ result = "noTransferNeeded"
            /\ i = Len(trace)
            /\ pc \in {"resolved", "done"}

C7_Witness ==
    /\ result = "noTransferNeeded"
    /\ pc = "done"
    /\ cfg.owner = cfg.destination

ReadsForeignOwner(i) ==
    /\ trace[i].status = "ok"
    /\ trace[i].key # cfg.owner
    /\ trace[i].key # cfg.destination

\* C8 as stated: when the first fetch shows an owner that is neither the
\* wallet nor the destination, the verification error is raised, nothing is
\* submitted and the final result is failure.
C8_NotOwnerAlwaysFails ==
    \A i \in OpsAt({"fetchAsset"}) :
        ReadsForeignOwner(i) =>
            /\ caught = VerificationError
            /\ ~HasOp("transferV1")
            /\ (pc = "done" => result = "false" /\ exitCode = "1")

\* C8 as amended: when the first fetch shows an owner that is neither the
\* wallet nor the destination, the verification error is raised and nothing
\* is submitted; the final result is failure unless the recovery ownership
\* check reads owner = destination, and then it is success.
C8_NotOwnerFailsUnlessRecovered ==
    \A i \in OpsAt({"fetchAsset"}) :
        ReadsForeignOwner(i) =>
            /\ caught = VerificationError
            /\ ~HasOp("transferV1")
            /\ pc \in {"recover", "resolved", "done"}
            /\ (pc = "done" =>
                   /\ result \in {"true", "false"}
                   /\ result = "true" <=>
                        \E j \in OpsAt({"verifyAssetOwnership"}) : ReadsDestination(j)
                   /\ exitCode = (IF result = "true" THEN "0" ELSE "1"))

C8_Witness ==
    /\ \E i \in OpsAt({"fetchAsset"}) : ReadsForeignOwner(i)
    /\ pc = "done"
    /\ result = "false"
    /\ HasOp("verifyAssetOwnership")

\* C9: in the Safe workflow, when the asset account read fails, finds no
\* account, or finds an account not owned by the Metaplex Core program, the
\* builder, safe.createProposal and safe.executeProposal are never called.
C9_VerificationFailureAborts ==
    \A i \in OpsAt({"verifyNFTInSafe"}) :
        ~(trace[i].status = "ok" /\ trace[i].key = METAPLEX_CORE_PROGRAM_ID) =>
            /\ OpsAt({"createMetaplexCoreTransferInstruction", "createProposal",
                      "executeProposal"}) = {}
            /\ ix = NoIx
            /\ pc = "done"

C9_Witness ==
    /\ \E i \in OpsAt({"verifyNFTInSafe"}) :
          trace[i].status = "ok" /\ trace[i].key = OtherProgramId
    /\ pc = "done"
    /\ cfg.existing = Unset

\* C10: the first call of safe.executeProposal that returns a transaction id
\* is the last one: executeProposal returns that id and neither calls nor
\* sleeps again.
C10_StopsOnFirstSuccess ==
    \A i \in DOMAIN execLog :
        execLog[i].kind = "ok" =>
            /\ i = Len(execLog)
            /\ i <= maxRetries
            /\ execResult = Returned(execLog[i].txid)
            /\ Len(waits) = i - 1
            /\ attempt = i
            /\ pc \notin {"execAttempt", "execBackoff"}

C10_Witness ==
    /\ Len(execLog) = 2
    /\ execLog[2].kind = "ok"
    /\ maxRetries >= 3
    /\ ExecFinished


\* C11: the error executeProposal raises is the error of its last call,
\* call number maxRetries, with that call's log lines, and it is the error
\* the caller's catch receives.
C11_LastErrorSurfaced ==
    execResult.kind = "throw" =>
        /\ Len(execLog) = maxRetries
        /\ execLog[maxRetries].kind = "fail"
        /\ execResult.err.msg = execLog[maxRetries].err.msg
        /\ execResult.err.logs = execLog[maxRetries].err.logs
        /\ (script = "safe" => caught = execLog[maxRetries].err)

C11_Witness ==
    /\ execResult.kind = "throw"
    /\ maxRetries >= 2
    /\ execLog[1].err # execLog[maxRetries].err
    /\ execResult.err.logs

FailedCalls == {i \in DOMAIN execLog : execLog[i].kind = "fail"}

\* C12: the k-th wait follows the failed call k < maxRetries and is
\* 5000 * 1.5^(k-1) ms (5000, 7500, 11250, ...); no wait follows the last
\* failed call, so N failed calls give N-1 waits.
C12_BackoffSchedule ==
    /\ \A k \in DOMAIN waits :
          /\ k < maxRetries
          /\ k \in FailedCalls
          /\ (k = 1 => waits[k][1] = 5000 * waits[k][2])
          /\ (k = 2 => waits[k][1] = 7500 * waits[k][2])
          /\ (k = 3 => waits[k][1] = 11250 * waits[k][2])
          /\ (k > 1 => 2 * waits[k][1] * waits[k - 1][2] = 3 * waits[k - 1][1] * waits[k][2])
    /\ (execResult.kind = "throw" =>
          /\ Cardinality(FailedCalls) = maxRetries
          /\ Len(waits) = maxRetries - 1)
    /\ (execResult.kind # "throw" => Len(waits) = Cardinality(FailedCalls))

C12_Witness ==
    /\ Len(waits) = 3
    /\ execResult.kind = "throw"

\* C13: in every finished run of transferNFT and of retrieveNFTFromSafe,
\* each submission attempt is followed by a read of the asset's on-chain
\* state, whether the submission succeeded or failed.
C13_PostCheckAlwaysRuns ==
    (script \in {"safe", "transfer"} /\ pc = "done") =>
        \A i \in OpsAt(SubmissionOps) : \E j \in OpsAt(PostReadOps) : i < j

NetworkOps == {"getBlockHeight", "verifyNFTInSafe", "createProposal", "fetchSafe",
               "fetchProposal", "executeProposal", "postTransferRead"}

\* C14: a run of the Safe workflow whose collection reference is missing or
\* is the default key performs no network operation.
C14_ValidationBeforeNetwork ==
    (script = "safe" /\ cfg.collection \in {Unset, Empty, ToBase58(PublicKeyDefault)}) =>
        OpsAt(NetworkOps) = {}

\* position of a step of the Safe workflow in its order
StepRank(op) ==
    CASE op = "getBlockHeight" -> 1
      [] op = "verifyNFTInSafe" -> 2
      [] op = "createMetaplexCoreTransferInstruction" -> 3
      [] op = "createProposal" -> 4
      [] op = "fetchSafe" -> 5
      [] op = "fetchProposal" -> 6
      [] op = "executeProposal" -> 7
      [] op = "sleep" -> 7
      [] op = "postTransferRead" -> 8
      [] OTHER -> 0

WorkflowOps == OpsAt(NetworkOps \cup {"createMetaplexCoreTransferInstruction"})

\* C16: the steps of one Safe run come in order: verification, build,
\* createProposal, executeProposal only with a proposal address, each retry
\* right after the failed call before it and its backoff sleep, and the
\* post-transfer read only after executeProposal returned.
C16_StepsInOrder ==
    script = "safe" =>
        /\ \A i \in WorkflowOps : \A j \in WorkflowOps :
              i < j => StepRank(trace[i].op) <= StepRank(trace[j].op)
        /\ \A i \in OpsAt({"createMetaplexCoreTransferInstruction"}) :
              \E j \in OpsAt({"verifyNFTInSafe"}) : j < i /\ trace[j].status = "ok"
        /\ \A i \in OpsAt({"createProposal"}) :
              \E j \in OpsAt({"createMetaplexCoreTransferInstruction"}) :
                  j < i /\ trace[j].status = "ok"
        /\ (HasOp("executeProposal") \/ pc = "execAttempt" => proposalAddress.kind = "b58")
        /\ \A i \in OpsAt({"executeProposal"}) :
              IF trace[i].key = 1
              THEN trace[i - 1].op = "fetchProposal"
              ELSE /\ trace[i - 1].op = "sleep"
                   /\ trace[i - 1].key = trace[i].key - 1
                   /\ trace[i - 2].op = "executeProposal"
                   /\ trace[i - 2].status = "fail"
                   /\ trace[i - 2].key = trace[i].key - 1
        /\ (pc = "execBackoff" => trace[Len(trace)].op = "sleep")
        /\ \A i \in OpsAt({"postTransferRead"}) :
              /\ execResult.kind = "return"
              /\ trace[i - 1].op = "sleep"
              /\ trace[i - 2].op = "executeProposal"
              /\ trace[i - 2].status = "ok"

C16_Witness ==
    /\ script = "safe"
    /\ HasOp("postTransferRead")
    /\ HasOp("createProposal")
    /\ Len(execLog) = 3

CountOps(op) == Cardinality(OpsAt({op}))

\* C17: a run calls the builder at most once and safe.createProposal at most
\* once, createProposal right after the builder returned the instruction, and
\* a run of transferNFT sends transferV1 at most once.
C17_BuiltOnceConsumedOnce ==
    /\ CountOps("createMetaplexCoreTransferInstruction") <= 1
    /\ CountOps("createProposal") <= 1
    /\ CountOps("transferV1") <= 1
    /\ \A i \in OpsAt({"createProposal"}) :
          /\ i > 1
          /\ trace[i - 1].op = "createMetaplexCoreTransferInstruction"
          /\ trace[i - 1].status = "ok"
          /\ ix # NoIx
    /\ (ix # NoIx /\ pc # "createProposal" => CountOps("createProposal") = 1)

C17_Witness ==
    /\ script = "transfer"
    /\ \E i \in OpsAt({"transferV1"}) : trace[i].status = "fail"
    /\ pc = "done"
    /\ result = "false"

\* number of approvals with isApproved set
Approved(approvals) == Len(SelectSeq(approvals, LAMBDA a : a))

ExecEntered == attempt >= 1

\* C18: after the proposal fetch, executeProposal is entered exactly when
\* approvalCount >= approvalsRequired, approvalCount being the number of
\* approvals with isApproved set, or approvalsRequired when the fetch failed.
C18_ExecutesIffThresholdMet ==
    script = "safe" =>
        /\ \A i \in OpsAt({"fetchProposal"}) :
              LET expected == IF trace[i].status = "ok"
                              THEN Approved(trace[i].approvals)
                              ELSE approvalsRequired
              IN /\ approvalCount = expected
                 /\ ExecEntered <=> expected >= approvalsRequired
                 /\ (trace[i].status = "error" => ExecEntered)
                 /\ (~ExecEntered => pc = "done" /\ ~HasOp("executeProposal"))
                 /\ (ExecEntered => pc = "execAttempt" \/ HasOp("executeProposal"))
        /\ (ExecEntered => HasOp("fetchProposal"))

C18_Witness ==
    /\ script = "safe"
    /\ \E i \in OpsAt({"fetchProposal"}) :
          /\ trace[i].status = "ok"
          /\ trace[i].approvals = <<TRUE, FALSE>>
    /\ approvalsRequired = 2
    /\ pc = "done"

\* C19: executeProposal with maxRetries <= 0 calls nothing, waits for
\* nothing, raises nothing and returns no transaction id.
C19_NonPositiveRetriesNoop ==
    (script = "exec" /\ maxRetries <= 0 /\ pc # "executeProposal") =>
        /\ pc = "done"
        /\ execLog = <<>>
        /\ waits = <<>>
        /\ trace = <<>>
        /\ execResult.kind = "return"
        /\ execResult.txid = ""

C19_Witness ==
    /\ script = "exec"
    /\ maxRetries < 0
    /\ pc = "done"

\* C20: with a well-formed EXISTING_PROPOSAL no instruction is built, no
\* proposal is created and that address is fetched and executed; otherwise
\* the address fetched and executed is that of the one proposal created.
C20_ExistingProposalChoice ==
    script = "safe" =>
        IF cfg.existing.kind = "b58"
        THEN /\ ~HasOp("createMetaplexCoreTransferInstruction")
             /\ ~HasOp("createProposal")
             /\ ix = NoIx
             /\ proposalAddress \in {Unset, cfg.existing}
             /\ \A i \in OpsAt({"fetchProposal"}) : trace[i].key = cfg.existing.key
             /\ (HasOp("executeProposal") => proposalAddress = cfg.existing)
        ELSE /\ proposalAddress \in {Unset, ToBase58(CreatedProposalKey)}
             /\ \A i \in OpsAt({"fetchProposal"}) :
                   /\ trace[i].key = CreatedProposalKey
                   /\ CountOps("createProposal") = 1
                   /\ \E j \in OpsAt({"createProposal"}) : j < i /\ trace[j].status = "ok"
             /\ (HasOp("executeProposal") =>
                   /\ proposalAddress = ToBase58(CreatedProposalKey)
                   /\ CountOps("createProposal") = 1)

C20_Witness ==
    /\ script = "safe"
    /\ cfg.existing = Garbage
    /\ HasOp("executeProposal")


\* initializeUmi gave null in a run whose connection setup succeeded
UmiNull ==
    /\ script = "safe"
    /\ pc \notin {"load", "crashed", "setupConnection", "initializeUmi"}
    /\ caught.msg = ""
    /\ ~umiContext

\* C21: when initializeUmi returns null, retrieveNFTFromSafe ends right after
\* the connection setup: no asset verification, no instruction, no
\* createProposal and no executeProposal; the manual path is only taken in
\* runs whose Umi context exists.
C21_UmiNullAborts ==
    /\ (UmiNull =>
          /\ pc = "done"
          /\ result = "undefined"
          /\ Len(trace) = 1
          /\ trace[1].op = "getBlockHeight"
          /\ ix = NoIx
          /\ proposalAddress = Unset
          /\ attempt = 0
          /\ execLog = <<>>)
    /\ (script = "safe" /\ pc \notin {"load", "setupConnection", "initializeUmi"} =>
          /\ (ix.path = "manual" => umiContext)
          /\ (OpsAt({"verifyNFTInSafe", "createMetaplexCoreTransferInstruction",
                     "createProposal", "fetchSafe", "fetchProposal",
                     "executeProposal"}) # {} => umiContext))

C21_Witness ==
    /\ UmiNull
    /\ libs.imports
    /\ cfg.existing.kind = "unset"
    /\ pc = "done"

\* C22: a balance read below 10,000,000 lamports is followed by no asset
\* fetch for the transfer and no transferV1, only by the recovery ownership
\* check; a balance of exactly 10,000,000 lamports passes the guard.
C22_LowBalanceGuard ==
    script = "transfer" =>
        \A i \in OpsAt({"getBalance"}) :
            /\ (trace[i].status = "ok" /\ trace[i].key < 10000000 =>
                  /\ OpsAt({"fetchAsset", "transferV1", "secondFetchAsset"}) = {}
                  /\ pc \in {"recover", "resolved", "done"}
                  /\ caught.msg = "Low wallet balance"
                  /\ (pc # "recover" =>
                        /\ result \in {"true", "false"}
                        /\ Len(trace) \in {1, 3}
                        /\ (Len(trace) = 3 => trace[3].op = "verifyAssetOwnership")))
            /\ (trace[i].status = "ok" /\ trace[i].key = 10000000 =>
                  /\ caught.msg # "Low wallet balance"
                  /\ \/ pc = "fetchAsset"
                     \/ HasOp("fetchAsset")
                     \/ caught.msg = "createUmi failed")

C22_Witness ==
    /\ script = "transfer"
    /\ \E i \in OpsAt({"getBalance"}) : trace[i].status = "ok" /\ trace[i].key = 9999999
    /\ HasOp("verifyAssetOwnership")
    /\ pc = "done"


\* an exception was raised in the main body of transferNFT
Raised == script = "transfer" /\ caught.msg # ""

\* the ownership verification of line 190, made after the send
MainVerifications == {i \in OpsAt({"verifyAssetOwnership"}) : trace[i - 2].op = "transferV1"}

\* the ownership verification of the catch block, line 236
RecoveryVerifications == OpsAt({"verifyAssetOwnership"}) \ MainVerifications

\* C23: transferNFT never rejects: an exception in its main body leads to one
\* recovery step with at most one ownership verification, the result is true
\* iff that verification reads owner = destination and false otherwise, and
\* the exit code is 0 iff the result is truthy.
C23_NeverRejects ==
    script = "transfer" =>
        /\ (pc = "crashed" => trace = <<>>)
        /\ (~Raised => RecoveryVerifications = {})
        /\ (Raised =>
              /\ pc \in {"recover", "resolved", "done"}
              /\ Cardinality(RecoveryVerifications) <= 1
              /\ (pc = "recover" => RecoveryVerifications = {})
              /\ (RecoveryVerifications # {} => Len(trace) \in RecoveryVerifications)
              /\ (pc # "recover" =>
                    /\ result \in {"true", "false"}
                    /\ result = "true" <=> \E i \in RecoveryVerifications : ReadsDestination(i)))
        /\ (pc \in {"resolved", "done"} => result \in {"true", "false", "noTransferNeeded"})
        /\ (pc = "done" =>
              /\ exitCode \in {"0", "1"}
              /\ exitCode = "0" <=> ResultTruthy(result))
        /\ (pc # "done" => exitCode = "none")

C23_Witness ==
    /\ Raised
    /\ HasOp("secondFetchAsset")
    /\ result = "true"
    /\ exitCode = "0"
    /\ pc = "done"

\* C24: verifyAssetOwnership never throws and only reads: its caller goes on
\* as after true iff the fetch gave the asset with owner = expected owner,
\* and as after false when the asset was not found, the owner differs or the
\* fetch raised; no submission follows it.
C24_VerifyOwnershipTotal ==
    script = "transfer" =>
        /\ \A i \in MainVerifications :
              IF ReadsDestination(i)
              THEN /\ i = Len(trace)
                   /\ result = "true"
                   /\ pc \in {"resolved", "done"}
                   /\ ~Raised
              ELSE \/ i = Len(trace) /\ pc = "secondCheck" /\ ~Raised /\ result = "pending"
                   \/ i < Len(trace) /\ trace[i + 1].op = "secondFetchAsset"
        /\ \A i \in RecoveryVerifications :
              /\ i = Len(trace)
              /\ pc \in {"resolved", "done"}
              /\ result = IF ReadsDestination(i) THEN "true" ELSE "false"
        /\ \A i \in OpsAt({"verifyAssetOwnership"}) :
              /\ trace[i].status \in {"ok", "null", "error"}
              /\ \A j \in OpsAt({"transferV1"}) : j < i

C24_Witness ==
    /\ script = "transfer"
    /\ \E i \in MainVerifications : trace[i].status = "error" /\ i < Len(trace)
    /\ \E i \in RecoveryVerifications : trace[i].status = "null"
    /\ result = "false"
    /\ pc = "done"

====
